---------------------------- MODULE Spec2Model ----------------------------
(***************************************************************************)
(* A model of hartea's analysis core and of the TUI model that drives it:  *)
(*   - the Analyzer (CalculateMetrics, GenerateTimeline),                  *)
(*   - the TimelineRenderer's waterfall layout,                            *)
(*   - the Comparator (Compare and its summary),                           *)
(*   - the bubbletea Model (NewModel, Update, switchFile, filterEntries).  *)
(*                                                                         *)
(* Numbers.  Times of day are integer milliseconds.  Go float64 values are  *)
(* modelled exactly, as reduced fractions [n, d]; an entry's elapsed time  *)
(* (Entry.Time, a float64 in ms) is held as a count of 1/TimeDen ms.       *)
(* Strings the code searches are sequences of one-character strings.       *)
(***************************************************************************)
EXTENDS Integers, Sequences, FiniteSets, TLC

VARIABLES
    \* ---- the Analyzer and the TimelineRenderer (SpecAnalyzer, SpecWaterfall)
    har,            \* Analyzer.har: [entries, pages]
    apc,            \* which call was made last: "new", "metrics", "timeline", "waterfall"
    calcResult,     \* what CalculateMetrics returned
    events,         \* what GenerateTimeline returned
    waterfall,      \* what RenderWaterfall laid out
    requests,       \* what GetSlowestRequests or GetLargestRequests returned
    \* ---- the Comparator (SpecComparator)
    cFiles,         \* Comparator.files
    cMetrics,       \* Comparator.metrics
    cpc,            \* "new" or "compared"
    cResult,        \* what Compare returned
    \* ---- the running program (Spec)
    teaModel,       \* the tui.Model that bubbletea holds between Update calls
    quit,           \* Update returned tea.Quit: the program has ended
    exporting,      \* exportReports goroutines started and not yet run
    exported,       \* the reports that exportReports has written
    \* ---- main, from the command line to the start of the program (SpecMain)
    osArgs,         \* os.Args[1:], each argument with the file it names
    mainHarFiles,   \* main's harFiles: the files parsed and validated so far
    mainPc          \* "start", "parse", "run", "exit0" or "exit1"

analyzerVars   == <<har, apc, calcResult, events, waterfall, requests>>
comparatorVars == <<cFiles, cMetrics, cpc, cResult>>
programVars    == <<teaModel, quit, exporting, exported>>
mainVars       == <<osArgs, mainHarFiles, mainPc>>
vars == <<analyzerVars, comparatorVars, programVars, mainVars>>

\* The value of a pointer, slice or result that was not set.
Nil == [nil |-> TRUE]

-----------------------------------------------------------------------------
(* Bounds of the model *)

\* Entries per HAR file.
MaxEntries == 3
\* Entry.Time is a multiple of 1/TimeDen ms.
TimeDen == 2
\* Metrics handed to one Comparator.
MaxFiles == 3
\* The most runes the model types into the filter prompt.
MaxFilterLen == 1

-----------------------------------------------------------------------------
(* Arithmetic *)

Abs(x) == IF x < 0 THEN -x ELSE x
Sign(x) == IF x < 0 THEN -1 ELSE IF x > 0 THEN 1 ELSE 0
Max(a, b) == IF a >= b THEN a ELSE b
Min(a, b) == IF a <= b THEN a ELSE b

\* Go's conversion of a float64 quotient to an integer: toward zero (b > 0).
TruncDiv(a, b) == IF a >= 0 THEN a \div b ELSE -((-a) \div b)

RECURSIVE Gcd(_, _)
Gcd(a, b) == IF b = 0 THEN a ELSE Gcd(b, a % b)

\* The float64 value n/d (d # 0), reduced so that equal values are equal records.
Rat(n, d) ==
    LET g == Gcd(Abs(n), Abs(d))
        s == IF d < 0 THEN -1 ELSE 1
    IN  [n |-> (s * n) \div g, d |-> (s * d) \div g]

RatInt(k) == [n |-> k, d |-> 1]
RatSub(x, y) == Rat(x.n * y.d - y.n * x.d, x.d * y.d)
RatDiv(x, y) == Rat(x.n * y.d, x.d * y.n)
RatMulInt(x, k) == Rat(x.n * k, x.d)
RatLt(x, y) == x.n * y.d < y.n * x.d
RatSign(x) == Sign(x.n)
RatAbs(x) == [n |-> Abs(x.n), d |-> x.d]

\* fmt's "%.1f": the value in tenths, rounded to nearest (ties to even, as for
\* the float64 values that are exactly halfway).
RoundTenths(x) ==
    LET a == Abs(x.n) * 10
        q == a \div x.d
        r == a % x.d
        up == (2 * r > x.d) \/ (2 * r = x.d /\ q % 2 = 1)
    IN  Sign(x.n) * (IF up THEN q + 1 ELSE q)

RECURSIVE SumSeq(_)
SumSeq(s) == IF s = <<>> THEN 0 ELSE Head(s) + SumSeq(Tail(s))

\* strings.Contains(s, sub)
Contains(s, sub) ==
    \E i \in 0 .. (Len(s) - Len(sub)) : SubSeq(s, i + 1, i + Len(sub)) = sub

-----------------------------------------------------------------------------
(* HAR data: har.Entry, har.Page and the files the model is run on *)

\* The request/response/timings part of an Entry.
EntryProfiles ==
    { [method |-> <<"G", "E", "T">>, url |-> <<"/", "a", ".", "j", "s">>,
       status |-> 200, size |-> 512, mime |-> <<"j", "s">>,
       wait |-> 5, dns |-> 4, connect |-> 7, ssl |-> 0, cache |-> FALSE],
      [method |-> <<"P", "O", "S", "T">>, url |-> <<"/", "4", "0", "4">>,
       status |-> 404, size |-> 0, mime |-> <<"h", "t", "m", "l">>,
       wait |-> 0, dns |-> 0, connect |-> -1, ssl |-> -1, cache |-> TRUE],
      [method |-> <<"G", "E", "T">>, url |-> <<"c", "d", "n", ".", "x", "/", "b">>,
       status |-> 301, size |-> 2048, mime |-> <<"c", "s", "s">>,
       wait |-> -1, dns |-> -1, connect |-> 2, ssl |-> 3, cache |-> FALSE],
      [method |-> <<"G", "E", "T">>, url |-> <<"/", "G", "e", "t">>,
       status |-> 500, size |-> 1500, mime |-> <<"t", "e", "x", "t", "/", "j", "s">>,
       wait |-> 3, dns |-> 1, connect |-> 0, ssl |-> 5, cache |-> TRUE] }

\* StartedDateTime (ms) and Time (1/TimeDen ms) of an Entry: a long request,
\* an instantaneous one that starts where the long one ends, and one whose
\* elapsed time need not be a whole number of milliseconds.
EntryTimings ==
    { [start |-> 0, time |-> 4],
      [start |-> 4 \div TimeDen, time |-> 0],
      [start |-> 1, time |-> 3] }

MkEntry(p, t) ==
    [StartedDateTime |-> t.start, Time |-> t.time,
     Method |-> p.method, URL |-> p.url,
     Status |-> p.status, Size |-> p.size, MimeType |-> p.mime,
     Wait |-> p.wait, DNS |-> p.dns, Connect |-> p.connect, SSL |-> p.ssl,
     BeforeRequest |-> p.cache]

EntryPool == { MkEntry(p, t) : p \in EntryProfiles, t \in EntryTimings }

SeqsUpTo(S, n) == UNION { [1 .. k -> S] : k \in 0 .. n }

\* Log.Pages: none, or one page whose onLoad is unset (0), unknown (-1) or set.
PagesPool == { <<>>, <<[OnLoad |-> 0]>>, <<[OnLoad |-> -1]>>, <<[OnLoad |-> 1200]>> }

HARs == { [entries |-> es, pages |-> ps] : es \in SeqsUpTo(EntryPool, MaxEntries),
                                            ps \in PagesPool }

-----------------------------------------------------------------------------
(* Analyzer *)

ThirdPartyDomains ==
    { <<"g", "o", "o", "g", "l", "e", "a", "p", "i", "s", ".", "c", "o", "m">>,
      <<"g", "o", "o", "g", "l", "e", "t", "a", "g", "m", "a", "n", "a", "g", "e", "r", ".", "c", "o", "m">>,
      <<"f", "a", "c", "e", "b", "o", "o", "k", ".", "c", "o", "m">>,
      <<"t", "w", "i", "t", "t", "e", "r", ".", "c", "o", "m">>,
      <<"a", "n", "a", "l", "y", "t", "i", "c", "s", ".", "g", "o", "o", "g", "l", "e", ".", "c", "o", "m">>,
      <<"d", "o", "u", "b", "l", "e", "c", "l", "i", "c", "k", ".", "n", "e", "t">>,
      <<"a", "m", "a", "z", "o", "n", ".", "c", "o", "m">>,
      <<"c", "d", "n", ".">>,
      <<"c", "d", "n", "j", "s", ".">> }

isThirdParty(url) == \E domain \in ThirdPartyDomains : Contains(url, domain)

\* The zero value of time.Time, which is before every time of the model.
ZeroTime == -1000000

\* &Metrics{}
ZeroMetrics ==
    [TotalRequests |-> 0, TotalTime |-> RatInt(0), TotalSize |-> 0,
     TTFB |-> RatInt(0), PageLoadTime |-> RatInt(0),
     DNSTime |-> RatInt(0), ConnectTime |-> RatInt(0), SSLTime |-> RatInt(0),
     FirstContentfulPaint |-> RatInt(0), LargestContentfulPaint |-> RatInt(0),
     CacheHitRatio |-> RatInt(0), ThirdPartyRequests |-> 0, ErrorRequests |-> 0]

\* One pass of the loop's TTFB statement over entry.Timings.Wait.
FirstByteStep(firstByte, wait) ==
    IF firstByte = -1 \/ (wait > 0 /\ wait < firstByte) THEN wait ELSE firstByte

RECURSIVE FirstByteLoop(_, _)
FirstByteLoop(entries, firstByte) ==
    IF entries = <<>> THEN firstByte
    ELSE FirstByteLoop(Tail(entries), FirstByteStep(firstByte, Head(entries).Wait))

\* A sum of one phase's values that adds every value, the -1 of a phase that
\* did not happen too.
PositiveSumOfAll(phase) == SumSeq(phase)

\* The sum the loop builds of one phase's values: only those > 0 are added.
PositiveSum(phase) ==
    SumSeq([i \in 1 .. Len(phase) |-> IF phase[i] > 0 THEN phase[i] ELSE 0])

\* entry.StartedDateTime.Add(time.Duration(entry.Time) * time.Millisecond)
EndTime(start, time) == start + TruncDiv(time, TimeDen)

RECURSIVE MinStartLoop(_, _)
MinStartLoop(entries, minStartTime) ==
    IF entries = <<>> THEN minStartTime
    ELSE MinStartLoop(Tail(entries),
                      IF Head(entries).StartedDateTime < minStartTime
                      THEN Head(entries).StartedDateTime ELSE minStartTime)

RECURSIVE MaxEndLoop(_, _)
MaxEndLoop(entries, maxEndTime) ==
    IF entries = <<>> THEN maxEndTime
    ELSE LET endTime == EndTime(Head(entries).StartedDateTime, Head(entries).Time)
         IN  MaxEndLoop(Tail(entries),
                        IF endTime > maxEndTime THEN endTime ELSE maxEndTime)

calculateEstimatedPageLoadTime(h) ==
    IF Len(h.entries) = 0 THEN RatInt(0)
    ELSE RatInt(MaxEndLoop(h.entries, ZeroTime)
                - MinStartLoop(h.entries, h.entries[1].StartedDateTime))

\* A CalculateMetrics that reads the page's onLoad before it looks whether
\* there are entries.
CalculateMetricsPageFirst(h) ==
    [ZeroMetrics EXCEPT
        !.TotalRequests = Len(h.entries),
        !.PageLoadTime = IF Len(h.pages) > 0 /\ h.pages[1].OnLoad > 0
                         THEN RatInt(h.pages[1].OnLoad) ELSE RatInt(0)]

CalculateMetrics(h) ==
    LET entries == h.entries
        n == Len(entries)
        onLoad == IF Len(h.pages) > 0 /\ h.pages[1].OnLoad > 0
                  THEN RatInt(h.pages[1].OnLoad) ELSE RatInt(0)
    IN  IF n = 0 THEN ZeroMetrics
        ELSE [TotalRequests |-> n,
              TotalTime |-> Rat(SumSeq([i \in 1 .. n |-> entries[i].Time]), TimeDen),
              TotalSize |-> SumSeq([i \in 1 .. n |-> entries[i].Size]),
              TTFB |-> RatInt(FirstByteLoop(entries, -1)),
              PageLoadTime |-> IF onLoad = RatInt(0)
                               THEN calculateEstimatedPageLoadTime(h) ELSE onLoad,
              DNSTime |-> Rat(PositiveSum([i \in 1 .. n |-> entries[i].DNS]), n),
              ConnectTime |-> Rat(PositiveSum([i \in 1 .. n |-> entries[i].Connect]), n),
              SSLTime |-> Rat(PositiveSum([i \in 1 .. n |-> entries[i].SSL]), n),
              FirstContentfulPaint |-> RatInt(0),
              LargestContentfulPaint |-> RatInt(0),
              CacheHitRatio |->
                  Rat(100 * Cardinality({i \in 1 .. n : entries[i].BeforeRequest}), n),
              ThirdPartyRequests |->
                  Cardinality({i \in 1 .. n : isThirdParty(entries[i].URL)}),
              ErrorRequests |->
                  Cardinality({i \in 1 .. n : entries[i].Status >= 400})]

\* The TimelineEvent GenerateTimeline appends for entry i (0-based) of the file.
TimelineEventOf(entries, i) ==
    [Index |-> i,
     URL |-> entries[i + 1].URL, Method |-> entries[i + 1].Method,
     Status |-> entries[i + 1].Status,
     StartTime |-> entries[i + 1].StartedDateTime,
     Duration |-> entries[i + 1].Time,
     Size |-> entries[i + 1].Size, ContentType |-> entries[i + 1].MimeType]

\* A less function that compares the wrong way round.
TimelineLessAfter(a, b) == a.StartTime > b.StartTime

\* The less function GenerateTimeline hands to sort.Slice.
TimelineLess(a, b) == a.StartTime < b.StartTime

\* sort.Slice(events, less) with that less function: the slice reordered so
\* that no element is less than one before it.  sort.Slice "is not guaranteed
\* to be stable": elements equal under less may come out in any order, so the
\* result is one of a set.
SortSlice(s) ==
    { [i \in 1 .. Len(s) |-> s[p[i]]] :
        p \in { q \in Permutations(1 .. Len(s)) :
                  \A i, j \in 1 .. Len(s) :
                      i < j => ~TimelineLess(s[q[j]], s[q[i]]) } }

\* The results GenerateTimeline can return.
GenerateTimeline(h) ==
    SortSlice([i \in 1 .. Len(h.entries) |-> TimelineEventOf(h.entries, i - 1)])

\* sort.Slice(entries, less) with the less function "the key at i is greater
\* than the key at j": the slice in an order of descending keys.  Elements
\* of equal key may come out in any order.
SortSliceDescending(s, keys) ==
    { [i \in 1 .. Len(s) |-> s[p[i]]] :
        p \in { q \in Permutations(1 .. Len(s)) :
                  \A i, j \in 1 .. Len(s) :
                      i < j => ~(keys[q[j]] > keys[q[i]]) } }

\* What a call leaves and gives back: a.har.Log.Entries after the call, and
\* the slice returned.
Requested(entries, returned) == [entries |-> entries, returned |-> returned]

\* A GetSlowestRequests that sorts a.har.Log.Entries itself, not a copy.
GetSlowestRequestsInPlace(h, limit) ==
    { Requested(sorted, SubSeq(sorted, 1, Min(limit, Len(sorted)))) :
        sorted \in SortSliceDescending(h.entries,
                       [i \in 1 .. Len(h.entries) |-> h.entries[i].Time]) }

\* GetSlowestRequests(limit), limit >= 0: a copy of the entries sorted by Time,
\* longest first, cut to limit.
GetSlowestRequests(h, limit) ==
    { Requested(h.entries, SubSeq(sorted, 1, Min(limit, Len(sorted)))) :
        sorted \in SortSliceDescending(h.entries,
                       [i \in 1 .. Len(h.entries) |-> h.entries[i].Time]) }

\* GetLargestRequests(limit), limit >= 0: a copy of the entries sorted by Size,
\* largest first, cut to limit.
GetLargestRequests(h, limit) ==
    { Requested(h.entries, SubSeq(sorted, 1, Min(limit, Len(sorted)))) :
        sorted \in SortSliceDescending(h.entries,
                       [i \in 1 .. Len(h.entries) |-> h.entries[i].Size]) }

-----------------------------------------------------------------------------
(* TimelineRenderer: the waterfall layout *)

\* Columns RenderWaterfall keeps for the request label and the status text.
LabelAllowance == 35
\* The narrowest chart RenderWaterfall draws.
MinChartWidth == 20
\* The window length RenderWaterfall falls back on, in ms.
FallbackDuration == 1000
\* Lines of the view that are not request bars.
ChromeLines == 8

\* NewTimelineRenderer(m.width-4, m.height-10) for some terminal sizes: before
\* the first WindowSizeMsg (0 x 0), narrow, and wider than the allowance.
RendererWidths == {-4, 40, 55, 56, 60, 76}
RendererHeights == {-10, 10, 30}

\* The HARs the renderer is run on: entries of every timing, and of one
\* whose elapsed time is negative and one that starts late and runs long.
WaterfallTimings ==
    EntryTimings \cup { [start |-> 0, time |-> -2],
                        [start |-> 5, time |-> 7] }

WaterfallProfiles == { p \in EntryProfiles : p.status \in {200, 404} }

WaterfallHARs ==
    { [entries |-> es, pages |-> <<>>] :
        es \in SeqsUpTo({ MkEntry(p, t) : p \in WaterfallProfiles,
                                            t \in WaterfallTimings }, MaxEntries) }

\* chartWidth := tr.width - 35, at least 20.
ChartWidthOf(width) ==
    IF width - LabelAllowance < MinChartWidth THEN MinChartWidth
    ELSE width - LabelAllowance

RECURSIVE WindowStartLoop(_, _)
WindowStartLoop(timeline, startTime) ==
    IF timeline = <<>> THEN startTime
    ELSE WindowStartLoop(Tail(timeline),
                         IF Head(timeline).StartTime < startTime
                         THEN Head(timeline).StartTime ELSE startTime)

RECURSIVE WindowEndLoop(_, _)
WindowEndLoop(timeline, endTime) ==
    IF timeline = <<>> THEN endTime
    ELSE LET end == EndTime(Head(timeline).StartTime, Head(timeline).Duration)
         IN  WindowEndLoop(Tail(timeline), IF end > endTime THEN end ELSE endTime)

\* A window length with a floor of 1 ms.
TotalDurationFloorOne(startTime, endTime) ==
    IF endTime - startTime <= 0 THEN 1 ELSE endTime - startTime

\* totalDuration, in ms: the window's length, or the fallback when it is <= 0.
TotalDurationOf(startTime, endTime) ==
    IF endTime - startTime <= 0 THEN FallbackDuration ELSE endTime - startTime

\* Clipping that forgets to cut the bar at the chart's right edge.
ClipBarNoCut(startPos, duration, chartWidth) ==
    [startPos |-> IF startPos >= chartWidth THEN chartWidth - 1 ELSE startPos,
     duration |-> IF duration < 1 THEN 1 ELSE duration]

\* The bar's end after the clipping statements of renderRequestBar.
ClipBar(startPos, duration, chartWidth) ==
    LET d1 == IF duration < 1 THEN 1 ELSE duration
        s1 == IF startPos >= chartWidth THEN chartWidth - 1 ELSE startPos
        d2 == IF s1 + d1 > chartWidth THEN chartWidth - s1 ELSE d1
    IN  [startPos |-> s1, duration |-> d2]

\* The outcome marker written right after the bar, when there is room.
MarkerOf(status) ==
    IF status >= 400 THEN "error" ELSE IF status >= 300 THEN "redirect" ELSE "success"

\* renderRequestBar: where the bar of `event` goes.  tr.pixelScale is
\* totalDuration / chartWidth, so x / tr.pixelScale = x * chartWidth / totalDuration.
renderRequestBar(event, chartWidth, trStartTime, totalDuration) ==
    LET requestStart == event.StartTime - trStartTime
        startPos == TruncDiv(requestStart * chartWidth, totalDuration)
        duration == TruncDiv(event.Duration * chartWidth, TimeDen * totalDuration)
        bar == ClipBar(startPos, duration, chartWidth)
    IN  [index |-> event.Index,
         startPos |-> bar.startPos, duration |-> bar.duration,
         marker |-> IF bar.startPos + bar.duration < chartWidth
                    THEN [at |-> bar.startPos + bar.duration, sym |-> MarkerOf(event.Status)]
                    ELSE Nil]

\* RenderWaterfall: the time window, the scale and one bar per shown event.
RenderWaterfall(timeline, width, height) ==
    IF Len(timeline) = 0 THEN Nil
    ELSE LET trStartTime == WindowStartLoop(timeline, timeline[1].StartTime)
             trEndTime == WindowEndLoop(timeline, timeline[1].StartTime)
             totalDuration == TotalDurationOf(trStartTime, trEndTime)
             chartWidth == ChartWidthOf(width)
             maxEntries == height - ChromeLines
             entriesToShow == IF Len(timeline) > maxEntries
                              THEN Max(maxEntries, 0) ELSE Len(timeline)
         IN  [width |-> width,
              startTime |-> trStartTime, endTime |-> trEndTime,
              totalDuration |-> totalDuration,
              chartWidth |-> chartWidth,
              pixelScale |-> Rat(totalDuration, chartWidth),
              bars |-> [i \in 1 .. entriesToShow |->
                          renderRequestBar(timeline[i], chartWidth,
                                           trStartTime, totalDuration)]]

-----------------------------------------------------------------------------
(* Comparator *)

\* fmt's "%.1f" of a float64: a minus sign when the value is negative, and the
\* magnitude in tenths.
FormatF1(x) == [neg |-> x.n < 0, tenths |-> Abs(RoundTenths(x))]

KiB == 1024

\* formatSize(size)
formatSize(size) ==
    IF size < KiB THEN [unit |-> "B", num |-> size]
    ELSE IF size < KiB * KiB THEN [unit |-> "KB", num |-> FormatF1(Rat(size, KiB))]
    ELSE [unit |-> "MB", num |-> FormatF1(Rat(size, KiB * KiB))]

\* The strings "Baseline" and "No change" of MetricDifference.Changes.
Baseline == [text |-> "Baseline"]
NoChange == [text |-> "No change"]

TimingMetrics ==
    { "Total Load Time", "Time to First Byte", "Average DNS Time",
      "Average Connect Time", "Average SSL Time" }

\* An improvement test that reads every float metric as lower-is-better.
isImprovementFloatAllLower(metricName, change) == RatSign(change) < 0

isImprovementFloat(metricName, change) ==
    IF metricName \in TimingMetrics THEN RatSign(change) < 0
    ELSE IF metricName = "Cache Hit Ratio" THEN RatSign(change) > 0
    ELSE FALSE

isImprovementInt(metricName, change) ==
    IF metricName = "Error Requests" \/ metricName = "Third-party Requests"
    THEN change < 0
    ELSE FALSE

\* A changePercent that reports a change from a zero base as 100%.
ChangePercentFullFromZero(change, baseValue) ==
    IF baseValue.n # 0 THEN RatMulInt(RatDiv(change, baseValue), 100)
    ELSE RatInt(100 * RatSign(change))

\* changePercent of the three compare functions: 0 when the base value is 0.
ChangePercent(change, baseValue) ==
    IF baseValue.n # 0 THEN RatMulInt(RatDiv(change, baseValue), 100) ELSE RatInt(0)

\* A threshold test that takes an unchanged value for the only "No change".
BelowThresholdExact(changePercent) == changePercent.n = 0

\* The threshold test of compareFloat: math.Abs(changePercent) < 0.1.
BelowThreshold(changePercent) == RatLt(RatAbs(changePercent), Rat(1, 10))

\* Column i (1-based; column 1 is file 0) of compareFloat.
compareFloatColumn(name, unit, value, baseValue, i) ==
    LET change == RatSub(value, baseValue)
        changePercent == ChangePercent(change, baseValue)
    IN  IF i > 1
        THEN IF BelowThreshold(changePercent)
             THEN [Value |-> [num |-> FormatF1(value), unit |-> unit],
                   Change |-> NoChange, Improvement |-> FALSE]
             ELSE [Value |-> [num |-> FormatF1(value), unit |-> unit],
                   Change |-> [text |-> "percent",
                               plus |-> RatSign(changePercent) > 0,
                               pct |-> FormatF1(changePercent)],
                   Improvement |-> isImprovementFloat(name, change)]
        ELSE [Value |-> [num |-> FormatF1(value), unit |-> unit],
              Change |-> Baseline, Improvement |-> FALSE]

\* A compareInt column that decides "No change" as compareFloat does, by the
\* percentage.
compareIntColumnByPercent(name, unit, value, baseValue, i) ==
    LET change == value - baseValue
        changePercent == ChangePercent(RatInt(change), RatInt(baseValue))
    IN  IF i > 1
        THEN IF RatLt(RatAbs(changePercent), Rat(1, 10))
             THEN [Value |-> [num |-> value, unit |-> unit],
                   Change |-> NoChange, Improvement |-> FALSE]
             ELSE [Value |-> [num |-> value, unit |-> unit],
                   Change |-> [text |-> "count", plus |-> change > 0,
                               change |-> change, pct |-> FormatF1(changePercent)],
                   Improvement |-> isImprovementInt(name, change)]
        ELSE [Value |-> [num |-> value, unit |-> unit],
              Change |-> Baseline, Improvement |-> FALSE]

\* A compareInt column that is "No change" only if file 0's value is not 0.
compareIntColumnZeroBaseChanged(name, unit, value, baseValue, i) ==
    LET change == value - baseValue
        changePercent == ChangePercent(RatInt(change), RatInt(baseValue))
    IN  IF i > 1
        THEN IF change = 0 /\ baseValue # 0
             THEN [Value |-> [num |-> value, unit |-> unit],
                   Change |-> NoChange, Improvement |-> FALSE]
             ELSE [Value |-> [num |-> value, unit |-> unit],
                   Change |-> [text |-> "count", plus |-> change > 0,
                               change |-> change, pct |-> FormatF1(changePercent)],
                   Improvement |-> isImprovementInt(name, change)]
        ELSE [Value |-> [num |-> value, unit |-> unit],
              Change |-> Baseline, Improvement |-> FALSE]

\* Column i of compareInt.
compareIntColumn(name, unit, value, baseValue, i) ==
    LET change == value - baseValue
        changePercent == ChangePercent(RatInt(change), RatInt(baseValue))
    IN  IF i > 1
        THEN IF change = 0
             THEN [Value |-> [num |-> value, unit |-> unit],
                   Change |-> NoChange, Improvement |-> FALSE]
             ELSE [Value |-> [num |-> value, unit |-> unit],
                   Change |-> [text |-> "count", plus |-> change > 0,
                               change |-> change, pct |-> FormatF1(changePercent)],
                   Improvement |-> isImprovementInt(name, change)]
        ELSE [Value |-> [num |-> value, unit |-> unit],
              Change |-> Baseline, Improvement |-> FALSE]

\* Column i of compareSize.
compareSizeColumn(name, value, baseValue, i) ==
    LET change == value - baseValue
        changePercent == ChangePercent(RatInt(change), RatInt(baseValue))
    IN  IF i > 1
        THEN IF change = 0
             THEN [Value |-> formatSize(value),
                   Change |-> NoChange, Improvement |-> FALSE]
             ELSE [Value |-> formatSize(value),
                   Change |-> [text |-> "size", plus |-> change > 0,
                               change |-> formatSize(Abs(change)),
                               pct |-> FormatF1(changePercent)],
                   Improvement |-> change < 0]
        ELSE [Value |-> formatSize(value),
              Change |-> Baseline, Improvement |-> FALSE]

\* The MetricDifference made of the columns cols.
DifferenceOf(name, cols) ==
    [Name |-> name,
     Values |-> [i \in 1 .. Len(cols) |-> cols[i].Value],
     Changes |-> [i \in 1 .. Len(cols) |-> cols[i].Change],
     Improvements |-> [i \in 1 .. Len(cols) |-> cols[i].Improvement]]

\* A compareFloat that compares every file with the file before it.
compareFloatToPrevious(name, unit, extracted) ==
    DifferenceOf(name, [i \in 1 .. Len(extracted) |->
        compareFloatColumn(name, unit, extracted[i], extracted[Max(i - 1, 1)], i)])

\* compareFloat, given extractor(metric) for every metric of c.metrics.
compareFloat(name, unit, extracted) ==
    DifferenceOf(name, [i \in 1 .. Len(extracted) |->
        compareFloatColumn(name, unit, extracted[i], extracted[1], i)])

\* compareInt, given extractor(metric) for every metric of c.metrics.
compareInt(name, unit, extracted) ==
    DifferenceOf(name, [i \in 1 .. Len(extracted) |->
        compareIntColumn(name, unit, extracted[i], extracted[1], i)])

\* compareSize, given extractor(metric) for every metric of c.metrics.
compareSize(name, extracted) ==
    DifferenceOf(name, [i \in 1 .. Len(extracted) |->
        compareSizeColumn(name, extracted[i], extracted[1], i)])

extractPageLoadTime(m) == m.PageLoadTime
extractTTFB(m) == m.TTFB
extractDNSTime(m) == m.DNSTime
extractConnectTime(m) == m.ConnectTime
extractSSLTime(m) == m.SSLTime
extractTotalRequests(m) == m.TotalRequests
extractErrorRequests(m) == m.ErrorRequests
extractThirdPartyRequests(m) == m.ThirdPartyRequests
extractCacheHitRatio(m) == m.CacheHitRatio
extractTotalSize(m) == m.TotalSize

\* The branch calculateSummary takes for column i (i > 1) of a difference.
TallyOf(diff, i) ==
    IF diff.Changes[i] = NoChange THEN "unchanged"
    ELSE IF diff.Improvements[i] THEN "better"
    ELSE "worse"

\* The pairs calculateSummary would visit if its inner loop began at column 0.
SummaryCellsFromBaseline(differences) ==
    UNION { { <<d, i>> : i \in 1 .. Len(differences[d].Improvements) } :
              d \in 1 .. Len(differences) }

\* The (difference, column) pairs calculateSummary visits: every column but the
\* first of every difference.
SummaryCells(differences) ==
    UNION { { <<d, i>> : i \in 2 .. Len(differences[d].Improvements) } :
              d \in 1 .. Len(differences) }

calculateSummary(differences) ==
    LET Count(t) == Cardinality({ c \in SummaryCells(differences) :
                                    TallyOf(differences[c[1]], c[2]) = t })
    IN  [BetterCount |-> Count("better"),
         WorseCount |-> Count("worse"),
         UnchangedCount |-> Count("unchanged"),
         TotalMetrics |-> Count("better") + Count("worse") + Count("unchanged")]

\* ComparisonSummary{}
ZeroSummary ==
    [BetterCount |-> 0, WorseCount |-> 0, UnchangedCount |-> 0, TotalMetrics |-> 0]

\* A Compare whose early return is taken by an empty list only; the ten
\* differences of one file are ten baseline columns.
CompareOneFile(files, metrics) ==
    IF Len(metrics) < 1
    THEN [Files |-> files, Metrics |-> metrics,
          Differences |-> <<>>, Summary |-> ZeroSummary]
    ELSE [Files |-> files, Metrics |-> metrics,
          Differences |->
              [d \in 1 .. 10 |->
                  [Name |-> d,
                   Values |-> [i \in 1 .. Len(metrics) |-> d],
                   Changes |-> [i \in 1 .. Len(metrics) |-> Baseline],
                   Improvements |-> [i \in 1 .. Len(metrics) |-> FALSE]]],
          Summary |-> ZeroSummary]

Compare(files, metrics) ==
    IF Len(metrics) < 2
    THEN [Files |-> files, Metrics |-> metrics,
          Differences |-> <<>>, Summary |-> ZeroSummary]
    ELSE LET n == Len(metrics)
             differences ==
                << compareFloat("Total Load Time", "ms",
                       [i \in 1 .. n |-> extractPageLoadTime(metrics[i])]),
                   compareFloat("Time to First Byte", "ms",
                       [i \in 1 .. n |-> extractTTFB(metrics[i])]),
                   compareFloat("Average DNS Time", "ms",
                       [i \in 1 .. n |-> extractDNSTime(metrics[i])]),
                   compareFloat("Average Connect Time", "ms",
                       [i \in 1 .. n |-> extractConnectTime(metrics[i])]),
                   compareFloat("Average SSL Time", "ms",
                       [i \in 1 .. n |-> extractSSLTime(metrics[i])]),
                   compareInt("Total Requests", "",
                       [i \in 1 .. n |-> extractTotalRequests(metrics[i])]),
                   compareInt("Error Requests", "",
                       [i \in 1 .. n |-> extractErrorRequests(metrics[i])]),
                   compareInt("Third-party Requests", "",
                       [i \in 1 .. n |-> extractThirdPartyRequests(metrics[i])]),
                   compareFloat("Cache Hit Ratio", "%",
                       [i \in 1 .. n |-> extractCacheHitRatio(metrics[i])]),
                   compareSize("Total Transfer Size",
                       [i \in 1 .. n |-> extractTotalSize(metrics[i])]) >>
         IN  [Files |-> files, Metrics |-> metrics,
              Differences |-> differences,
              Summary |-> calculateSummary(differences)]

-----------------------------------------------------------------------------
(* The Analyzer called on every HAR of the model (SpecAnalyzer), and the    *)
(* renderer called on the timelines of the waterfall HARs (SpecWaterfall)   *)

InitAnalyzer ==
    /\ har \in HARs
    /\ apc = "new"
    /\ calcResult = Nil
    /\ events = Nil
    /\ waterfall = Nil
    /\ requests = Nil
    /\ cFiles = <<>>
    /\ cMetrics = <<>>
    /\ cpc = "idle"
    /\ cResult = Nil
    /\ teaModel = Nil
    /\ quit = FALSE
    /\ exporting = {}
    /\ exported = {}
    /\ osArgs = <<>>
    /\ mainHarFiles = <<>>
    /\ mainPc = "idle"

InitWaterfall ==
    /\ har \in WaterfallHARs
    /\ apc = "new"
    /\ calcResult = Nil
    /\ events = Nil
    /\ waterfall = Nil
    /\ requests = Nil
    /\ cFiles = <<>>
    /\ cMetrics = <<>>
    /\ cpc = "idle"
    /\ cResult = Nil
    /\ teaModel = Nil
    /\ quit = FALSE
    /\ exporting = {}
    /\ exported = {}
    /\ osArgs = <<>>
    /\ mainHarFiles = <<>>
    /\ mainPc = "idle"

CallCalculateMetrics ==
    /\ apc = "new"
    /\ calcResult' = CalculateMetrics(har)
    /\ apc' = "metrics"
    /\ UNCHANGED <<har, events, waterfall, requests, comparatorVars, programVars, mainVars>>

CallGenerateTimeline ==
    /\ apc = "new"
    /\ events' \in GenerateTimeline(har)
    /\ apc' = "timeline"
    /\ UNCHANGED <<har, calcResult, waterfall, requests, comparatorVars, programVars, mainVars>>

CallRenderWaterfall ==
    /\ apc = "timeline"
    /\ \E w \in RendererWidths, h \in RendererHeights :
          waterfall' = RenderWaterfall(events, w, h)
    /\ apc' = "waterfall"
    /\ UNCHANGED <<har, calcResult, events, requests, comparatorVars, programVars, mainVars>>

NextAnalyzer == CallCalculateMetrics \/ CallGenerateTimeline

NextWaterfall == CallGenerateTimeline \/ CallRenderWaterfall

SpecAnalyzer == InitAnalyzer /\ [][NextAnalyzer]_vars

SpecWaterfall == InitWaterfall /\ [][NextWaterfall]_vars

-----------------------------------------------------------------------------
(* The Comparator called on lists of Metrics (SpecComparator) *)

\* The float64 fields the Comparator reads.  Each field takes every ordered
\* pair of its values as (baseline, file): an increase, a decrease, a zero
\* baseline, a change below the 0.1% threshold (DNS 1000 and 1000.25), one
\* exactly at it (load time 2500 and 2502.5), and for TTFB the value -1 that
\* CalculateMetrics starts from.
FloatShapes ==
    { [plt |-> RatInt(2500), ttfb |-> RatInt(-1), dns |-> RatInt(1000),
       con |-> Rat(3, 2), ssl |-> RatInt(10), chr |-> RatInt(50)],
      [plt |-> RatInt(1800), ttfb |-> RatInt(0), dns |-> RatInt(2),
       con |-> RatInt(0), ssl |-> Rat(7, 3), chr |-> RatInt(100)],
      [plt |-> RatInt(0), ttfb |-> RatInt(5), dns |-> RatInt(0),
       con |-> Rat(7, 3), ssl |-> RatInt(0), chr |-> RatInt(0)],
      [plt |-> Rat(5005, 2), ttfb |-> RatInt(120), dns |-> Rat(4001, 4),
       con |-> RatInt(2), ssl |-> Rat(1, 2), chr |-> Rat(100, 3)] }

\* The integer fields the Comparator reads.
IntShapes ==
    { [req |-> 10, err |-> 0, third |-> 3, size |-> 0],
      [req |-> 12, err |-> 2, third |-> 0, size |-> 1000],
      [req |-> 7, err |-> 1, third |-> 4, size |-> 3 * KiB * KiB] }

MkMetrics(f, k) ==
    [TotalRequests |-> k.req, TotalTime |-> RatInt(0), TotalSize |-> k.size,
     TTFB |-> f.ttfb, PageLoadTime |-> f.plt,
     DNSTime |-> f.dns, ConnectTime |-> f.con, SSLTime |-> f.ssl,
     FirstContentfulPaint |-> RatInt(0), LargestContentfulPaint |-> RatInt(0),
     CacheHitRatio |-> f.chr, ThirdPartyRequests |-> k.third,
     ErrorRequests |-> k.err]

\* The Metrics of the model: those shapes, and the Metrics of an empty file.
MetricsPool == { MkMetrics(f, k) : f \in FloatShapes, k \in IntShapes } \cup { ZeroMetrics }

InitComparator ==
    /\ cMetrics \in SeqsUpTo(MetricsPool, MaxFiles)
    /\ cFiles = [i \in 1 .. Len(cMetrics) |-> i]
    /\ cpc = "new"
    /\ cResult = Nil
    /\ har = Nil
    /\ apc = "idle"
    /\ calcResult = Nil
    /\ events = Nil
    /\ waterfall = Nil
    /\ requests = Nil
    /\ teaModel = Nil
    /\ quit = FALSE
    /\ exporting = {}
    /\ exported = {}
    /\ osArgs = <<>>
    /\ mainHarFiles = <<>>
    /\ mainPc = "idle"

CallCompare ==
    /\ cpc = "new"
    /\ cResult' = Compare(cFiles, cMetrics)
    /\ cpc' = "compared"
    /\ UNCHANGED <<cFiles, cMetrics, analyzerVars, programVars, mainVars>>

NextComparator == CallCompare

SpecComparator == InitComparator /\ [][NextComparator]_vars

-----------------------------------------------------------------------------
(* The bubbletea Model: NewModel, Update and the methods Update calls *)

\* ViewMode
TableView == 0
DetailView == 1
MetricsView == 2
TimelineView == 3
ComparisonView == 4
HelpView == 5

\* textinput's CharLimit, and the table's first height and URL column width.
CharLimit == 256
TableHeight == 20
URLWidth == 60
TypeWidth == 15

\* The tail of "..." that truncateURL and the content type column leave.
Ellipsis == <<".", ".", ".">>

\* The keys of DefaultKeyMap (the letters k, j, h, l are the second keys of
\* Up, Down, Left and Right), backspace, and a letter that is bound to nothing.
Runes == { "/", "m", "t", "c", "e", "?", "q", "k", "j", "h", "l", "p" }
Keys == Runes \cup { "up", "down", "left", "right", "enter", "esc", "tab",
                     "ctrl+c", "backspace" }

\* The runes the model types into the filter prompt: "p" is in POST only, and
\* "q" (the Quit key) is in nothing the filter looks at.
TypedRunes == { "p", "q" }

\* The size of the terminal window: one that widens the URL column.
WindowSizes == { [Width |-> 132, Height |-> 43] }

UpperCase == <<"A", "B", "C", "D", "E", "F", "G", "H", "I", "J", "K", "L", "M",
               "N", "O", "P", "Q", "R", "S", "T", "U", "V", "W", "X", "Y", "Z">>
LowerCase == <<"a", "b", "c", "d", "e", "f", "g", "h", "i", "j", "k", "l", "m",
               "n", "o", "p", "q", "r", "s", "t", "u", "v", "w", "x", "y", "z">>

toLower(c) ==
    IF \E i \in 1 .. Len(UpperCase) : UpperCase[i] = c
    THEN LowerCase[CHOOSE i \in 1 .. Len(UpperCase) : UpperCase[i] = c]
    ELSE c

equalIgnoreCase(a, b) ==
    /\ Len(a) = Len(b)
    /\ \A i \in 1 .. Len(a) : toLower(a[i]) = toLower(b[i])

findSubstring(s, substr) ==
    \E i \in 0 .. (Len(s) - Len(substr)) :
        equalIgnoreCase(SubSeq(s, i + 1, i + Len(substr)), substr)

contains(s, substr) ==
    /\ Len(s) >= Len(substr)
    /\ (s = substr \/ Len(substr) = 0 \/ findSubstring(s, substr))

matchesFilter(entry, filter) ==
    \/ contains(entry.URL, filter)
    \/ contains(entry.Method, filter)
    \/ contains(entry.MimeType, filter)

truncateURL(url, maxLen) ==
    IF Len(url) <= maxLen THEN url ELSE SubSeq(url, 1, maxLen - 3) \o Ellipsis

\* The table.Row that updateTableRows builds of an entry.
TableRow(entry) ==
    << entry.Method,
       entry.Status,
       truncateURL(entry.URL, URLWidth),
       FormatF1(Rat(entry.Time, TimeDen)),
       formatSize(entry.Size),
       IF entry.MimeType = <<>> THEN <<"u", "n", "k", "n", "o", "w", "n">>
       ELSE IF Len(entry.MimeType) > TypeWidth
            THEN SubSeq(entry.MimeType, 1, TypeWidth - 3) \o Ellipsis
            ELSE entry.MimeType >>

\* updateTableRows: with no entries it returns before SetRows is called.
updateTableRows(model) ==
    IF Len(model.entries) = 0 THEN model
    ELSE [model EXCEPT !.table.rows =
             [i \in 1 .. Len(model.entries) |-> TableRow(model.entries[i])]]

\* table.MoveUp(n) and table.MoveDown(n), and GotoTop, which is MoveUp(cursor).
tableMoveTo(table, cursor) ==
    [table EXCEPT !.cursor = Min(Max(cursor, 0), Len(table.rows) - 1)]

tableGotoTop(table) == tableMoveTo(table, table.cursor - table.cursor)

\* table.Update(msg) of a key: the focused table moves its cursor.
tableUpdate(table, key) ==
    IF ~table.focus THEN table
    ELSE IF key \in { "up", "k" } THEN tableMoveTo(table, table.cursor - 1)
    ELSE IF key \in { "down", "j" } THEN tableMoveTo(table, table.cursor + 1)
    ELSE table

\* textinput.Update(msg) of a key: the focused input moves its cursor, deletes
\* the character before it, or inserts the rune of the key.
textinputUpdate(filter, key) ==
    IF ~filter.focus THEN filter
    ELSE IF key = "left" THEN [filter EXCEPT !.pos = Max(filter.pos - 1, 0)]
    ELSE IF key = "right"
         THEN [filter EXCEPT !.pos = Min(filter.pos + 1, Len(filter.value))]
    ELSE IF key = "backspace"
         THEN IF filter.pos = 0 THEN filter
              ELSE [filter EXCEPT
                       !.value = SubSeq(filter.value, 1, filter.pos - 1)
                                 \o SubSeq(filter.value, filter.pos + 1,
                                           Len(filter.value)),
                       !.pos = filter.pos - 1]
    ELSE IF key \in Runes /\ Len(filter.value) < CharLimit
         THEN [filter EXCEPT
                  !.value = SubSeq(filter.value, 1, filter.pos) \o <<key>>
                            \o SubSeq(filter.value, filter.pos + 1,
                                      Len(filter.value)),
                  !.pos = filter.pos + 1]
    ELSE filter

\* The HAR of the file on display: m.harFiles[m.currentFile].
CurrentHAR(model) == model.harFiles[model.currentFile + 1]

\* A switchFile that loads the entries and the rows of the file and leaves
\* the metrics, the timeline and the selection as they were.
switchFileEntriesOnly(model) ==
    IF model.currentFile < Len(model.harFiles)
    THEN LET loaded == updateTableRows(
                 [model EXCEPT !.entries = CurrentHAR(model).entries])
         IN  { [loaded EXCEPT !.table = tableGotoTop(loaded.table)] }
    ELSE { model }

\* switchFile.  GenerateTimeline sorts, so there is a model for each order
\* the sort may leave.
switchFile(model) ==
    IF model.currentFile < Len(model.harFiles)
    THEN LET loaded == updateTableRows(
                 [model EXCEPT !.entries = CurrentHAR(model).entries,
                               !.metrics = CalculateMetrics(CurrentHAR(model))])
         IN  { [loaded EXCEPT !.timeline = tl,
                              !.selectedEntry = 0,
                              !.table = tableGotoTop(loaded.table)] :
                   tl \in GenerateTimeline(CurrentHAR(model)) }
    ELSE { model }

\* filterEntries(filterText)
filterEntries(model, filterText) ==
    LET all == CurrentHAR(model).entries
        shown == IF filterText = <<>> THEN all
                 ELSE SelectSeq(all, LAMBDA entry : matchesFilter(entry, filterText))
        rowsSet == updateTableRows([model EXCEPT !.entries = shown])
    IN  [rowsSet EXCEPT !.table = tableGotoTop(rowsSet.table)]

\* NewModel(harFiles): the first file's entries, metrics and timeline, the
\* comparison of all files if there are several, an unfocused empty filter and
\* a focused table.  analyzers[i] is the Analyzer of harFiles[i]; loading, err
\* and keys never change and are left out.
NewModel(harFiles) ==
    LET n == Len(harFiles)
        base == [harFiles |-> harFiles,
                 currentFile |-> 0,
                 currentView |-> TableView,
                 selectedEntry |-> 0,
                 table |-> [rows |-> <<>>, cursor |-> 0, focus |-> TRUE,
                            height |-> TableHeight, urlWidth |-> URLWidth],
                 filter |-> [value |-> <<>>, pos |-> 0, focus |-> FALSE],
                 width |-> 0,
                 height |-> 0,
                 showFilter |-> FALSE,
                 entries |-> IF n > 0 THEN harFiles[1].entries ELSE <<>>,
                 timeline |-> Nil,
                 metrics |-> IF n > 0 THEN CalculateMetrics(harFiles[1]) ELSE Nil,
                 comparison |->
                     IF n > 1
                     THEN Compare([i \in 1 .. n |-> i],
                                  [i \in 1 .. n |-> CalculateMetrics(harFiles[i])])
                     ELSE Nil]
    IN  IF n > 0
        THEN { updateTableRows([base EXCEPT !.timeline = tl]) :
                   tl \in GenerateTimeline(harFiles[1]) }
        ELSE { base }

\* What Update returns: the model, the command, and whether it started an
\* exportReports goroutine.
Returns(model, cmd, started) == [model |-> model, cmd |-> cmd, go |-> started]

\* A view key that shows its view and never goes back to the table.
ToggleViewOneWay(model, view) == [model EXCEPT !.currentView = view]

ToggleView(model, view) ==
    [model EXCEPT !.currentView = IF @ = view THEN TableView ELSE view]

\* The end of Update, reached by a message no case returned from.
UpdateTable(model, key) ==
    IF model.currentView = TableView /\ ~model.showFilter
    THEN [model EXCEPT !.table = tableUpdate(model.table, key)]
    ELSE model

\* Update(msg) of a tea.WindowSizeMsg
UpdateWindowSizeMsg(model, msg) ==
    LET urlWidth == msg.Width - 60
    IN  { Returns([model EXCEPT
                      !.width = msg.Width,
                      !.height = msg.Height,
                      !.table.height = msg.Height - 10,
                      !.table.urlWidth = IF urlWidth > 30 THEN urlWidth ELSE @],
                  "nil", FALSE) }

\* A filter prompt that lets the Quit keys through to the program.
UpdateFilterKeyQuitting(model, key) ==
    IF key \in { "q", "ctrl+c" }
    THEN { Returns(model, "tea.Quit", FALSE) }
    ELSE { Returns([model EXCEPT
                       !.filter = textinputUpdate(model.filter, key)],
                   "nil", FALSE) }

\* Update(msg) of a tea.KeyMsg while m.showFilter: Enter applies the text,
\* Esc drops it, and any other key goes to the text input.
UpdateFilterKey(model, key) ==
    IF key = "enter"
    THEN { Returns(filterEntries([model EXCEPT !.showFilter = FALSE],
                                 model.filter.value), "nil", FALSE) }
    ELSE IF key = "esc"
    THEN { Returns([model EXCEPT !.showFilter = FALSE,
                                 !.filter.value = <<>>,
                                 !.filter.pos = 0], "nil", FALSE) }
    ELSE { Returns([model EXCEPT
                       !.filter = textinputUpdate(model.filter, key)],
                   "nil", FALSE) }

\* Update(msg) of a tea.KeyMsg
UpdateKeyMsg(model, key) ==
    IF model.showFilter
    THEN UpdateFilterKey(model, key)
    ELSE IF key \in { "q", "ctrl+c" }
         THEN { Returns(model, "tea.Quit", FALSE) }
    ELSE IF key = "/"
         THEN { Returns([model EXCEPT !.showFilter = TRUE, !.filter.focus = TRUE],
                        "nil", FALSE) }
    ELSE IF key = "tab"
         THEN IF Len(model.harFiles) > 1
              THEN { Returns(next, "nil", FALSE) :
                       next \in switchFile(
                           [model EXCEPT !.currentFile =
                               (model.currentFile + 1) % Len(model.harFiles)]) }
              ELSE { Returns(model, "nil", FALSE) }
    ELSE IF key = "m"
         THEN { Returns(ToggleView(model, MetricsView), "nil", FALSE) }
    ELSE IF key = "t"
         THEN { Returns(ToggleView(model, TimelineView), "nil", FALSE) }
    ELSE IF key = "c"
         THEN IF Len(model.harFiles) > 1
              THEN { Returns(ToggleView(model, ComparisonView), "nil", FALSE) }
              ELSE { Returns(model, "nil", FALSE) }
    ELSE IF key = "e"
         THEN { Returns(model, "nil", TRUE) }
    ELSE IF key = "?"
         THEN { Returns(ToggleView(model, HelpView), "nil", FALSE) }
    ELSE IF key = "enter"
         THEN IF model.currentView = TableView
              THEN { Returns([model EXCEPT !.selectedEntry = model.table.cursor,
                                           !.currentView = DetailView],
                             "nil", FALSE) }
              ELSE { Returns(model, "nil", FALSE) }
    ELSE IF key = "esc"
         THEN { Returns([model EXCEPT !.currentView = TableView], "nil", FALSE) }
    ELSE { Returns(UpdateTable(model, key), "nil", FALSE) }

\* A renderDetailView without the test of m.selectedEntry.
renderDetailViewUnguarded(model) ==
    [text |-> "Request Details", reads |-> { model.selectedEntry }]

\* renderDetailView: what the view says, and the indexes at which it reads
\* m.entries.
renderDetailView(model) ==
    IF model.selectedEntry >= Len(model.entries)
    THEN [text |-> "No entry selected", reads |-> {}]
    ELSE [text |-> "Request Details", reads |-> { model.selectedEntry }]

\* What exportReports hands to the report generator.
ReportOf(model) == [harFiles |-> model.harFiles, comparison |-> model.comparison]

\* An exportReports that drops the comparison of the model it runs beside.
exportReportsDroppingComparison(report, model) ==
    [written |-> report, model |-> [model EXCEPT !.comparison = Nil]]

\* exportReports, run by the goroutine that Update started with `report` while
\* the program holds `model`: the generator reads the files, computes the
\* metrics anew and writes the four reports; nothing the model holds is
\* assigned.
exportReports(report, model) == [written |-> report, model |-> model]

-----------------------------------------------------------------------------
(* The program run on lists of HAR files (Spec) *)

\* The entries of the files: a GET that starts after the POST it follows in
\* the file.
ProgramEntries(methods) ==
    [i \in 1 .. Len(methods) |->
        LET p == CHOOSE q \in EntryProfiles :
                     q.method = methods[i] /\ q.status \in { 200, 404 }
        IN  MkEntry(p, [start |-> IF p.status = 404 THEN 0 ELSE 1, time |-> 3])]

ProgramHAR(methods) == [entries |-> ProgramEntries(methods), pages |-> <<>>]

\* The files main hands to NewModel: one file, two, and three of which two
\* are alike.  ValidateHAR lets no file through that has no entries, and main
\* stops if there is no file.
ProgramFiles ==
    LET both == ProgramHAR(<< <<"G", "E", "T">>, <<"P", "O", "S", "T">> >>)
        post == ProgramHAR(<< <<"P", "O", "S", "T">> >>)
    IN  { <<both>>, <<both, post>>, <<post, both, both>> }

Init ==
    /\ teaModel \in UNION { NewModel(harFiles) : harFiles \in ProgramFiles }
    /\ quit = FALSE
    /\ exporting = {}
    /\ exported = {}
    /\ osArgs = <<>>
    /\ mainHarFiles = <<>>
    /\ mainPc = "run"
    /\ har = Nil
    /\ apc = "idle"
    /\ calcResult = Nil
    /\ events = Nil
    /\ waterfall = Nil
    /\ requests = Nil
    /\ cFiles = <<>>
    /\ cMetrics = <<>>
    /\ cpc = "idle"
    /\ cResult = Nil

\* bubbletea hands Update a key.  In the filter prompt the model types the
\* runes of TypedRunes only, and no more than MaxFilterLen of them.
KeyMsg ==
    /\ ~quit
    /\ \E key \in Keys :
          /\ (teaModel.showFilter /\ key \in Runes) =>
                 (key \in TypedRunes /\ Len(teaModel.filter.value) < MaxFilterLen)
          /\ \E r \in UpdateKeyMsg(teaModel, key) :
                /\ teaModel' = r.model
                /\ quit' = (r.cmd = "tea.Quit")
                /\ exporting' = IF r.go THEN exporting \cup { ReportOf(teaModel) }
                                ELSE exporting
    /\ UNCHANGED <<exported, analyzerVars, comparatorVars, mainVars>>

\* bubbletea hands Update the size of the window.
WindowSizeMsg ==
    /\ ~quit
    /\ \E msg \in WindowSizes : \E r \in UpdateWindowSizeMsg(teaModel, msg) :
          teaModel' = r.model
    /\ UNCHANGED <<quit, exporting, exported, analyzerVars, comparatorVars, mainVars>>

\* A goroutine that Update started runs exportReports, while the program lives.
RunExportReports ==
    /\ ~quit
    /\ \E report \in exporting :
          LET done == exportReports(report, teaModel) IN
          /\ exporting' = exporting \ { report }
          /\ exported' = exported \cup { done.written }
          /\ teaModel' = done.model
    /\ UNCHANGED <<quit, analyzerVars, comparatorVars, mainVars>>

Next == KeyMsg \/ WindowSizeMsg \/ RunExportReports

Spec == Init /\ [][Next]_vars

-----------------------------------------------------------------------------
(* main, from the command line to NewModel (SpecMain) *)

\* Log.Version of the files that have one.
HARVersion == <<"1", ".", "2">>

\* What ParseFile can meet: a path that cannot be opened, a file that is not
\* JSON of the HAR shape, a HAR with no version, a HAR with no entries, and
\* two HARs with both.  "--version" is the name of no file.
MainArgs ==
    { [name |-> "x.har", opens |-> FALSE, decodes |-> FALSE, version |-> <<>>,
       har |-> Nil],
      [name |-> "--version", opens |-> FALSE, decodes |-> FALSE, version |-> <<>>,
       har |-> Nil],
      [name |-> "text.har", opens |-> TRUE, decodes |-> FALSE, version |-> <<>>,
       har |-> Nil],
      [name |-> "nolog.har", opens |-> TRUE, decodes |-> TRUE, version |-> <<>>,
       har |-> ProgramHAR(<< <<"P", "O", "S", "T">> >>)],
      [name |-> "empty.har", opens |-> TRUE, decodes |-> TRUE, version |-> HARVersion,
       har |-> [entries |-> <<>>, pages |-> <<[OnLoad |-> 1200]>>]],
      [name |-> "post.har", opens |-> TRUE, decodes |-> TRUE, version |-> HARVersion,
       har |-> ProgramHAR(<< <<"P", "O", "S", "T">> >>)],
      [name |-> "both.har", opens |-> TRUE, decodes |-> TRUE, version |-> HARVersion,
       har |-> ProgramHAR(<< <<"G", "E", "T">>, <<"P", "O", "S", "T">> >>)] }

\* ParseFile(filepath): whether it returns an error.
ParseFileFails(arg) == ~arg.opens \/ ~arg.decodes

\* A ValidateHAR that asks for the version only.
ValidateHARVersionOnly(arg) == arg.version = <<>>

\* ValidateHAR(har): whether it returns an error.
ValidateHARFails(arg) == arg.version = <<>> \/ Len(arg.har.entries) = 0

InitMain ==
    /\ osArgs \in SeqsUpTo(MainArgs, MaxFiles)
    /\ mainHarFiles = <<>>
    /\ mainPc = "start"
    /\ teaModel = Nil
    /\ quit = FALSE
    /\ exporting = {}
    /\ exported = {}
    /\ har = Nil
    /\ apc = "idle"
    /\ calcResult = Nil
    /\ events = Nil
    /\ waterfall = Nil
    /\ requests = Nil
    /\ cFiles = <<>>
    /\ cMetrics = <<>>
    /\ cpc = "idle"
    /\ cResult = Nil

\* The version flag and the usage message.
MainFlags ==
    /\ mainPc = "start"
    /\ mainPc' = IF Len(osArgs) = 1 /\ osArgs[1].name \in { "--version", "-v" }
                 THEN "exit0"
                 ELSE IF Len(osArgs) < 1 THEN "exit1" ELSE "parse"
    /\ UNCHANGED <<osArgs, mainHarFiles, analyzerVars, comparatorVars, programVars>>

\* One pass of the loop over os.Args[1:].
MainParseFile ==
    /\ mainPc = "parse"
    /\ Len(mainHarFiles) < Len(osArgs)
    /\ LET arg == osArgs[Len(mainHarFiles) + 1]
       IN  IF ParseFileFails(arg) THEN mainPc' = "exit1" /\ mainHarFiles' = mainHarFiles
           ELSE IF ValidateHARFails(arg) THEN mainPc' = "exit1" /\ mainHarFiles' = mainHarFiles
           ELSE mainPc' = "parse" /\ mainHarFiles' = Append(mainHarFiles, arg.har)
    /\ UNCHANGED <<osArgs, analyzerVars, comparatorVars, programVars>>

\* After the loop: NewModel(harFiles), and the program runs.
MainNewModel ==
    /\ mainPc = "parse"
    /\ Len(mainHarFiles) = Len(osArgs)
    /\ IF Len(mainHarFiles) = 0
       THEN mainPc' = "exit1" /\ teaModel' = teaModel
       ELSE mainPc' = "run" /\ teaModel' \in NewModel(mainHarFiles)
    /\ UNCHANGED <<osArgs, mainHarFiles, quit, exporting, exported,
                   analyzerVars, comparatorVars>>

NextMain == MainFlags \/ MainParseFile \/ MainNewModel

SpecMain == InitMain /\ [][NextMain]_vars

-----------------------------------------------------------------------------
(* A filter text applied to a file (SpecFilter) *)

\* The requests of the files that are filtered: those of EntryProfiles, a 404
\* whose URL does not say so, and a 200 whose URL has 404 in it.
FilterProfiles ==
    EntryProfiles \cup
    { [method |-> <<"G", "E", "T">>, url |-> <<"/", "g", "o", "n", "e">>,
       status |-> 404, size |-> 0, mime |-> <<"h", "t", "m", "l">>,
       wait |-> 2, dns |-> 0, connect |-> 0, ssl |-> 0, cache |-> FALSE],
      [method |-> <<"G", "E", "T">>, url |-> <<"/", "4", "0", "4", ".", "j", "s">>,
       status |-> 200, size |-> 100, mime |-> <<"j", "s">>,
       wait |-> 2, dns |-> 0, connect |-> 0, ssl |-> 0, cache |-> FALSE] }

\* Files of those requests, each request starting 1 ms after the one before.
FilterHARs ==
    { [entries |-> [i \in 1 .. Len(ps) |-> MkEntry(ps[i], [start |-> i, time |-> 4])],
       pages |-> <<>>] :
        ps \in SeqsUpTo(FilterProfiles, MaxEntries) \ { <<>> } }

\* The texts typed into the prompt.
FilterTexts ==
    { <<>>, <<"4", "0", "4">>, <<"G", "E", "T">>, <<"g", "e", "t">>, <<"j", "s">> }

\* The model after "/" and the runes of a text: the prompt is open.
InitFilter ==
    /\ teaModel \in
          { [model EXCEPT !.showFilter = TRUE,
                          !.filter = [value |-> text, pos |-> Len(text),
                                      focus |-> TRUE]] :
              model \in UNION { NewModel(<<h>>) : h \in FilterHARs },
              text \in FilterTexts }
    /\ quit = FALSE
    /\ exporting = {}
    /\ exported = {}
    /\ osArgs = <<>>
    /\ mainHarFiles = <<>>
    /\ mainPc = "run"
    /\ har = Nil
    /\ apc = "idle"
    /\ calcResult = Nil
    /\ events = Nil
    /\ waterfall = Nil
    /\ requests = Nil
    /\ cFiles = <<>>
    /\ cMetrics = <<>>
    /\ cpc = "idle"
    /\ cResult = Nil

\* Enter in the prompt: Update applies the text.
ApplyFilter ==
    /\ teaModel.showFilter
    /\ \E r \in UpdateKeyMsg(teaModel, "enter") : teaModel' = r.model
    /\ UNCHANGED <<quit, exporting, exported, analyzerVars, comparatorVars, mainVars>>

NextFilter == ApplyFilter

SpecFilter == InitFilter /\ [][NextFilter]_vars

-----------------------------------------------------------------------------
(* The entries of the loaded files under the operations that read them      *)
(* (SpecEntries): the keys that switch file and filter, and the Analyzer's  *)
(* request lists asked of any loaded file                                   *)

\* The keys that open, fill, apply and drop the filter, and Tab.
EntriesKeys == { "/", "p", "q", "enter", "esc", "tab" }

\* The limits the request lists are asked with.
RequestLimits == { 0, 1, MaxEntries }

InitEntries ==
    /\ teaModel \in UNION { NewModel(harFiles) : harFiles \in ProgramFiles }
    /\ quit = FALSE
    /\ exporting = {}
    /\ exported = {}
    /\ osArgs = <<>>
    /\ mainHarFiles = <<>>
    /\ mainPc = "run"
    /\ har = Nil
    /\ apc = "idle"
    /\ calcResult = Nil
    /\ events = Nil
    /\ waterfall = Nil
    /\ requests = Nil
    /\ cFiles = <<>>
    /\ cMetrics = <<>>
    /\ cpc = "idle"
    /\ cResult = Nil

\* Update on one of those keys; the runes are typed into the prompt only.
EntriesKeyMsg ==
    /\ \E key \in EntriesKeys :
          /\ key \in TypedRunes => teaModel.showFilter
          /\ (teaModel.showFilter /\ key \in Runes) =>
                 (key \in TypedRunes /\ Len(teaModel.filter.value) < MaxFilterLen)
          /\ \E r \in UpdateKeyMsg(teaModel, key) : teaModel' = r.model
    /\ UNCHANGED <<quit, exporting, exported, analyzerVars, comparatorVars, mainVars>>

\* analyzers[i].GetSlowestRequests(limit)
CallGetSlowestRequests ==
    /\ \E i \in 1 .. Len(teaModel.harFiles), limit \in RequestLimits :
          \E r \in GetSlowestRequests(teaModel.harFiles[i], limit) :
             /\ teaModel' = [teaModel EXCEPT !.harFiles[i].entries = r.entries]
             /\ requests' = [call |-> "GetSlowestRequests", file |-> i,
                             limit |-> limit, returned |-> r.returned]
    /\ UNCHANGED <<har, apc, calcResult, events, waterfall, quit, exporting,
                   exported, comparatorVars, mainVars>>

\* analyzers[i].GetLargestRequests(limit)
CallGetLargestRequests ==
    /\ \E i \in 1 .. Len(teaModel.harFiles), limit \in RequestLimits :
          \E r \in GetLargestRequests(teaModel.harFiles[i], limit) :
             /\ teaModel' = [teaModel EXCEPT !.harFiles[i].entries = r.entries]
             /\ requests' = [call |-> "GetLargestRequests", file |-> i,
                             limit |-> limit, returned |-> r.returned]
    /\ UNCHANGED <<har, apc, calcResult, events, waterfall, quit, exporting,
                   exported, comparatorVars, mainVars>>

NextEntries == EntriesKeyMsg \/ CallGetSlowestRequests \/ CallGetLargestRequests

SpecEntries == InitEntries /\ [][NextEntries]_vars

-----------------------------------------------------------------------------
(* Properties of the running program *)

\* The entries on display, as a file of their own.
DisplayedHAR ==
    [entries |-> teaModel.entries, pages |-> CurrentHAR(teaModel).pages]

\* C2: whenever the filter prompt is closed, the model's metrics and timeline
\* are the ones derived from the entries on display: metrics =
\* CalculateMetrics(entries) and timeline = GenerateTimeline(entries), after a
\* file switch and after a filter was applied alike.
C2_MetricsAndTimelineOfDisplayedEntries ==
    ~teaModel.showFilter =>
        /\ teaModel.metrics = CalculateMetrics(DisplayedHAR)
        /\ teaModel.timeline \in GenerateTimeline(DisplayedHAR)

\* Whether the file an argument names is one ParseFile and ValidateHAR accept.
ValidArg(arg) ==
    /\ arg.opens
    /\ arg.decodes
    /\ arg.version # <<>>
    /\ Len(arg.har.entries) >= 1

\* C18: NewModel is reached only after every file named on the command line
\* was parsed and validated (a log version, and at least one entry); if a
\* file fails either, the program exits with status 1 and NewModel is never
\* called.
C18_CoreOnlyAfterValidation ==
    /\ teaModel # Nil =>
          /\ mainPc = "run"
          /\ \A i \in 1 .. Len(osArgs) : ValidArg(osArgs[i])
          /\ teaModel.harFiles = [i \in 1 .. Len(osArgs) |-> osArgs[i].har]
          /\ \A i \in 1 .. Len(teaModel.harFiles) :
                Len(teaModel.harFiles[i].entries) >= 1
    /\ (\E i \in 1 .. Len(osArgs) : ~ValidArg(osArgs[i])) =>
          /\ teaModel = Nil
          /\ mainPc \in { "start", "parse", "exit0", "exit1" }
          /\ (mainPc = "exit0") => (Len(osArgs) = 1)
          /\ (Len(mainHarFiles) = Len(osArgs)) => (mainPc # "parse")

\* NewModel was called on as many files as the model names on a command line.
C18_Witness ==
    /\ mainPc = "run"
    /\ teaModel # Nil
    /\ Len(osArgs) = MaxFiles
    /\ Len(teaModel.harFiles) = MaxFiles

\* The entries of a sequence whose response status is 404.
Status404(entries) == SelectSeq(entries, LAMBDA entry : entry.Status = 404)

\* C19: after the filter text "404" was applied, the entries on display are
\* the requests of the current file whose response status is 404: all of
\* them, and no other.
C19_Filter404ShowsStatus404 ==
    (~teaModel.showFilter /\ teaModel.filter.value = <<"4", "0", "4">>) =>
        teaModel.entries = Status404(CurrentHAR(teaModel).entries)

\* The models that k Tab keys in a row lead to from the models of a set.
RECURSIVE TabTimes(_, _)
TabTimes(models, k) ==
    IF k = 0 THEN models
    ELSE TabTimes(UNION { { r.model : r \in UpdateKeyMsg(model, "tab") } :
                            model \in models }, k - 1)

\* C20: with n > 1 files, Tab outside the filter prompt, in whatever view,
\* sets currentFile to (currentFile + 1) mod n and loads that file's entries,
\* metrics and timeline with selectedEntry 0, so that n Tabs in a row come
\* back to the file they began at; with one file Tab changes nothing; and
\* 0 <= currentFile < n in every state.
C20_TabCyclesFiles ==
    LET n == Len(teaModel.harFiles)
    IN  /\ teaModel.currentFile >= 0
        /\ teaModel.currentFile < n
        /\ ~teaModel.showFilter =>
              /\ \A r \in UpdateKeyMsg(teaModel, "tab") :
                    IF n > 1
                    THEN LET next == (teaModel.currentFile + 1) % n
                             file == teaModel.harFiles[next + 1]
                         IN  /\ r.model.currentFile = next
                             /\ r.model.entries = file.entries
                             /\ r.model.metrics = CalculateMetrics(file)
                             /\ r.model.timeline \in GenerateTimeline(file)
                             /\ r.model.selectedEntry = 0
                             /\ r.model.currentView = teaModel.currentView
                             /\ r.cmd = "nil"
                    ELSE r.model = teaModel /\ r.cmd = "nil"
              /\ \A model \in TabTimes({ teaModel }, n) :
                    model.currentFile = teaModel.currentFile

\* Tab has gone from the first of three files to the last, in the metrics
\* view, and the last file's entries and metrics are loaded.
C20_Witness ==
    /\ Len(teaModel.harFiles) = 3
    /\ teaModel.currentFile = 2
    /\ teaModel.currentView = MetricsView
    /\ teaModel.selectedEntry = 0
    /\ teaModel.entries = teaModel.harFiles[3].entries
    /\ teaModel.metrics = CalculateMetrics(teaModel.harFiles[3])
    /\ ~teaModel.showFilter

\* C21: the comparison view is on display only if more than one file is loaded
\* and the model has a comparison; outside the prompt the 'c' key changes
\* nothing with one file, and with several files it shows the comparison
\* view, or the table if the comparison view is on display.
C21_ComparisonViewNeedsFiles ==
    /\ teaModel.currentView = ComparisonView =>
          /\ Len(teaModel.harFiles) > 1
          /\ teaModel.comparison # Nil
    /\ (Len(teaModel.harFiles) > 1) <=> (teaModel.comparison # Nil)
    /\ ~teaModel.showFilter =>
          \A r \in UpdateKeyMsg(teaModel, "c") :
              /\ r.cmd = "nil"
              /\ IF Len(teaModel.harFiles) > 1
                 THEN r.model = [teaModel EXCEPT !.currentView =
                                    IF teaModel.currentView = ComparisonView
                                    THEN TableView ELSE ComparisonView]
                 ELSE r.model = teaModel

\* The comparison view of two files is on display.
C21_Witness ==
    /\ teaModel.currentView = ComparisonView
    /\ Len(teaModel.harFiles) = 2
    /\ teaModel.comparison # Nil
    /\ Len(teaModel.comparison.Differences) = 10

\* C22: no step changes a loaded file's entries: not a request list of the
\* Analyzer, not Tab's switchFile (CalculateMetrics, GenerateTimeline), not
\* a filter applied or dropped.  Each file keeps its entries in their order.
C22_LoadedEntriesNeverChange ==
    [][teaModel'.harFiles = teaModel.harFiles]_vars

\* GetSlowestRequests has returned the requests of the file on display in
\* another order than the file's, after Tab came to that file and a filter
\* cut its display down.
C22_Witness ==
    /\ requests # Nil
    /\ requests.call = "GetSlowestRequests"
    /\ requests.file = teaModel.currentFile + 1
    /\ Len(requests.returned) = 2
    /\ requests.returned # CurrentHAR(teaModel).entries
    /\ teaModel.currentFile > 0
    /\ Len(teaModel.entries) < Len(CurrentHAR(teaModel).entries)

\* C24: with several files and the prompt closed, Right and l switch to the
\* next file and Left and h to the previous one: currentFile moves by one,
\* around the ends, and the entries on display are that file's.
C24_LeftRightSwitchFiles ==
    (Len(teaModel.harFiles) > 1 /\ ~teaModel.showFilter) =>
        LET n == Len(teaModel.harFiles) IN
        /\ \A key \in { "right", "l" } : \A r \in UpdateKeyMsg(teaModel, key) :
              /\ r.model.currentFile = (teaModel.currentFile + 1) % n
              /\ r.model.entries = CurrentHAR(r.model).entries
        /\ \A key \in { "left", "h" } : \A r \in UpdateKeyMsg(teaModel, key) :
              /\ r.model.currentFile = (teaModel.currentFile + n - 1) % n
              /\ r.model.entries = CurrentHAR(r.model).entries

\* Outside the prompt the 'e' key returns the model as it was, with no
\* command, and has started an exportReports goroutine; and while an export
\* is in flight the program takes the next key.
ExportReturnsAtOnce ==
    /\ ~teaModel.showFilter =>
          UpdateKeyMsg(teaModel, "e") = { Returns(teaModel, "nil", TRUE) }
    /\ (exporting # {} /\ ~quit) => ENABLED KeyMsg

\* A step that completes an export leaves the model as it was: files,
\* metrics, comparison and every other field.
ExportLeavesModel ==
    (exporting' # exporting /\ exporting' \subseteq exporting) =>
        teaModel' = teaModel

\* C25: export is fire-and-forget: 'e' returns at once with every field of
\* the model unchanged, keys are taken while an export is in flight, and the
\* export's run changes nothing of the model: not the files, the metrics or
\* the comparison.
C25_ExportIsFireAndForget ==
    []ExportReturnsAtOnce /\ [][ExportLeavesModel]_vars

\* An export that no run has completed is in flight while the filter prompt
\* is open on the second file: Tab and '/' were taken after 'e' or before it,
\* and '/' after it, since in the prompt 'e' is text.
C25_Witness ==
    /\ exporting # {}
    /\ exported = {}
    /\ teaModel.showFilter
    /\ teaModel.currentFile = 1

\* C26: the table has one row for each entry on display, in the same order
\* and of that entry's cells, and no row when no entry is on display: in every
\* state, so after every filter applied and every file switched to.
C26_RowsAreTheDisplayedEntries ==
    /\ Len(teaModel.table.rows) = Len(teaModel.entries)
    /\ \A i \in 1 .. Len(teaModel.entries) :
          teaModel.table.rows[i] = TableRow(teaModel.entries[i])

\* C27: whenever the prompt is closed, the entries on display are the entries
\* of the current file that match the text the filter input holds, in the
\* file's order, and all of the file's entries when the text is empty.
C27_DisplayedEntriesMatchFilterText ==
    ~teaModel.showFilter =>
        teaModel.entries =
            IF teaModel.filter.value = <<>> THEN CurrentHAR(teaModel).entries
            ELSE SelectSeq(CurrentHAR(teaModel).entries,
                           LAMBDA entry : matchesFilter(entry, teaModel.filter.value))

\* C28: while the prompt is shown, a key other than Enter and Esc changes the
\* text input and nothing else: Update returns no Quit and starts no export,
\* the prompt stays open, and currentView, currentFile, entries and
\* selectedEntry are as before.  Enter and Esc close the prompt.
C28_PromptConsumesKeys ==
    teaModel.showFilter =>
        /\ \A key \in Keys \ { "enter", "esc" } :
              \A r \in UpdateKeyMsg(teaModel, key) :
                 /\ r.cmd # "tea.Quit"
                 /\ ~r.go
                 /\ r.model.showFilter
                 /\ r.model = [teaModel EXCEPT !.filter = r.model.filter]
                 /\ r.model.currentView = teaModel.currentView
                 /\ r.model.currentFile = teaModel.currentFile
                 /\ r.model.entries = teaModel.entries
                 /\ r.model.selectedEntry = teaModel.selectedEntry
        /\ \A key \in { "enter", "esc" } :
              \A r \in UpdateKeyMsg(teaModel, key) : ~r.model.showFilter

\* The Quit key was typed into the open prompt of the second file, in the
\* metrics view: the text is "q", the program runs and no export has started.
C28_Witness ==
    /\ teaModel.showFilter
    /\ teaModel.filter.value = <<"q">>
    /\ teaModel.currentFile = 1
    /\ teaModel.currentView = MetricsView
    /\ ~quit
    /\ exporting = {}
    /\ exported = {}

\* C29: in every state the detail view reads the entries on display at no
\* index outside 0 .. len(entries) - 1, and when selectedEntry >= len(entries)
\* it reads none and says "No entry selected".
C29_DetailViewReadsInsideEntries ==
    LET view == renderDetailView(teaModel) IN
    /\ \A i \in view.reads : 0 <= i /\ i < Len(teaModel.entries)
    /\ teaModel.selectedEntry >= Len(teaModel.entries) =>
          (view.text = "No entry selected" /\ view.reads = {})
    /\ teaModel.selectedEntry < Len(teaModel.entries) =>
          view.reads = { teaModel.selectedEntry }

\* The detail view is on display with the second entry selected, after a
\* filter left one entry on display.
C29_Witness ==
    /\ teaModel.currentView = DetailView
    /\ ~teaModel.showFilter
    /\ teaModel.selectedEntry = 1
    /\ Len(teaModel.entries) = 1
    /\ renderDetailView(teaModel).text = "No entry selected"

-----------------------------------------------------------------------------
(* Properties of the Analyzer *)

PositiveWaits(entries) ==
    { w \in { entries[i].Wait : i \in 1 .. Len(entries) } : w > 0 }

SetMin(S) == CHOOSE x \in S : \A y \in S : x <= y

\* C1: for a non-empty collection, TTFB is the least wait that is > 0 over all
\* entries, and a negative value when no entry has a wait > 0.
C1_TTFBIsMinPositiveWait ==
    (apc = "metrics" /\ Len(har.entries) > 0) =>
        IF PositiveWaits(har.entries) = {}
        THEN RatSign(calcResult.TTFB) < 0
        ELSE calcResult.TTFB = RatInt(SetMin(PositiveWaits(har.entries)))

\* C3: the timeline is sorted ascending by start time and is a permutation of
\* the file's entries: as many events as entries, every original position
\* 0 .. n-1 is the Index of exactly one event, and each event carries the
\* fields of the entry at its Index.
C3_TimelineSortedPermutation ==
    apc = "timeline" =>
        LET n == Len(har.entries) IN
        /\ Len(events) = n
        /\ \A i, j \in 1 .. n : i < j => events[i].StartTime <= events[j].StartTime
        /\ \A k \in 0 .. n - 1 : Cardinality({ i \in 1 .. n : events[i].Index = k }) = 1
        /\ \A i \in 1 .. n :
              LET e == har.entries[events[i].Index + 1] IN
              /\ events[i].URL = e.URL
              /\ events[i].Method = e.Method
              /\ events[i].Status = e.Status
              /\ events[i].StartTime = e.StartedDateTime
              /\ events[i].Duration = e.Time
              /\ events[i].Size = e.Size
              /\ events[i].ContentType = e.MimeType

\* A timeline of MaxEntries events of three different start times that came out
\* in another order than the entries went in.
C3_Witness ==
    /\ apc = "timeline"
    /\ Len(events) >= 3
    /\ Cardinality({ events[i].StartTime : i \in 1 .. Len(events) }) >= 3
    /\ \E i \in 1 .. Len(events) : events[i].Index # i - 1

\* C4: events with equal start times come out in ascending order of Index.
C4_TimelineStable ==
    apc = "timeline" =>
        \A i, j \in 1 .. Len(events) :
            (i < j /\ events[i].StartTime = events[j].StartTime)
                => events[i].Index < events[j].Index

\* C15: CalculateMetrics of a file with no entries returns Metrics whose every
\* field is zero, TTFB and PageLoadTime too, also when the file's page has an
\* onLoad timing.
C15_EmptyCollectionZeroMetrics ==
    (apc = "metrics" /\ Len(har.entries) = 0) =>
        /\ calcResult.TotalRequests = 0
        /\ calcResult.TotalSize = 0
        /\ calcResult.ThirdPartyRequests = 0
        /\ calcResult.ErrorRequests = 0
        /\ \A f \in { "TotalTime", "TTFB", "PageLoadTime", "DNSTime", "ConnectTime",
                       "SSLTime", "FirstContentfulPaint", "LargestContentfulPaint",
                       "CacheHitRatio" } : calcResult[f] = RatInt(0)

\* CalculateMetrics has returned for a file with no entries and a page whose
\* onLoad is 1200.
C15_Witness ==
    /\ apc = "metrics"
    /\ Len(har.entries) = 0
    /\ Len(har.pages) > 0
    /\ har.pages[1].OnLoad = 1200
    /\ calcResult.PageLoadTime = RatInt(0)

\* The sum of the values > 0 among the first k of vals.
RECURSIVE PhaseTotal(_, _)
PhaseTotal(vals, k) ==
    IF k = 0 THEN 0
    ELSE PhaseTotal(vals, k - 1) + (IF vals[k] > 0 THEN vals[k] ELSE 0)

\* C16: for a non-empty collection TotalRequests is its length; the DNS,
\* Connect and SSL averages are the sum of that phase's values > 0 divided by
\* the number of all entries; CacheHitRatio is 100 * (entries with a cache
\* state before the request) / (number of all entries), and so in [0, 100].
C16_AveragesOverAllEntries ==
    (apc = "metrics" /\ Len(har.entries) > 0) =>
        LET n == Len(har.entries)
            hits == Cardinality({ i \in 1 .. n : har.entries[i].BeforeRequest })
        IN  /\ calcResult.TotalRequests = n
            /\ calcResult.DNSTime.n * n = calcResult.DNSTime.d
                   * PhaseTotal([i \in 1 .. n |-> har.entries[i].DNS], n)
            /\ calcResult.ConnectTime.n * n = calcResult.ConnectTime.d
                   * PhaseTotal([i \in 1 .. n |-> har.entries[i].Connect], n)
            /\ calcResult.SSLTime.n * n = calcResult.SSLTime.d
                   * PhaseTotal([i \in 1 .. n |-> har.entries[i].SSL], n)
            /\ calcResult.CacheHitRatio.n * n = calcResult.CacheHitRatio.d * 100 * hits
            /\ calcResult.CacheHitRatio.d > 0
            /\ calcResult.CacheHitRatio.n >= 0
            /\ calcResult.CacheHitRatio.n <= 100 * calcResult.CacheHitRatio.d

\* CalculateMetrics has returned for entries of which one has a phase of -1
\* and another the same phase > 0, and of which some but not all have a cache
\* state.
C16_Witness ==
    /\ apc = "metrics"
    /\ Len(har.entries) = MaxEntries
    /\ \E i, j \in 1 .. Len(har.entries) :
          /\ har.entries[i].DNS < 0 /\ har.entries[j].DNS > 0
          /\ har.entries[i].BeforeRequest # har.entries[j].BeforeRequest
    /\ calcResult.DNSTime.n > 0

\* C17: for a non-empty collection PageLoadTime is the page's onLoad timing if
\* there is one and it is > 0, and otherwise (the latest end of an entry) -
\* (the earliest start of an entry) in ms, an entry's end being its start
\* plus the whole of its elapsed time.
C17_PageLoadTimeIsOnLoadOrSpan ==
    (apc = "metrics" /\ Len(har.entries) > 0) =>
        LET n == Len(har.entries)
            \* in units of 1/TimeDen ms
            ends == { har.entries[i].StartedDateTime * TimeDen + har.entries[i].Time :
                        i \in 1 .. n }
            starts == { har.entries[i].StartedDateTime * TimeDen : i \in 1 .. n }
            lastEnd == CHOOSE x \in ends : \A y \in ends : y <= x
        IN  IF Len(har.pages) > 0 /\ har.pages[1].OnLoad > 0
            THEN calcResult.PageLoadTime = RatInt(har.pages[1].OnLoad)
            ELSE calcResult.PageLoadTime = Rat(lastEnd - SetMin(starts), TimeDen)

-----------------------------------------------------------------------------
(* Properties of the waterfall layout *)

\* C5: every bar lies inside the chart: 0 <= startPos <= chartWidth - 1,
\* duration >= 1 and startPos + duration <= chartWidth, where chartWidth is
\* max(20, width - 35).
C5_BarsInsideChart ==
    (apc = "waterfall" /\ waterfall # Nil) =>
        /\ waterfall.chartWidth = Max(20, waterfall.width - 35)
        /\ \A i \in 1 .. Len(waterfall.bars) :
              LET b == waterfall.bars[i] IN
              /\ 0 <= b.startPos
              /\ b.startPos <= waterfall.chartWidth - 1
              /\ b.duration >= 1
              /\ b.startPos + b.duration <= waterfall.chartWidth

\* A chart wider than the minimum that shows a zero-duration event starting
\* exactly at the window's end, drawn as one pixel in the last column.
C5_Witness ==
    /\ apc = "waterfall"
    /\ waterfall # Nil
    /\ waterfall.chartWidth > 20
    /\ \E i \in 1 .. Len(waterfall.bars) :
          /\ events[i].Duration = 0
          /\ events[i].StartTime = waterfall.endTime
          /\ events[i].StartTime > waterfall.startTime
          /\ waterfall.bars[i].startPos = waterfall.chartWidth - 1
          /\ waterfall.bars[i].duration = 1

SetMax(S) == CHOOSE x \in S : \A y \in S : x >= y

\* Latest end less earliest start over the events laid out, in ms.
WindowSpan ==
    SetMax({ EndTime(events[i].StartTime, events[i].Duration) :
                 i \in 1 .. Len(events) })
    - SetMin({ events[i].StartTime : i \in 1 .. Len(events) })

-----------------------------------------------------------------------------
(* Properties of the Comparator *)

FloatMetricNames == TimingMetrics \cup { "Cache Hit Ratio" }
IntMetricNames ==
    { "Total Requests", "Error Requests", "Third-party Requests", "Total Transfer Size" }

\* The field of m that the difference called name reports.
FloatField(name, m) ==
    CASE name = "Total Load Time" -> m.PageLoadTime
      [] name = "Time to First Byte" -> m.TTFB
      [] name = "Average DNS Time" -> m.DNSTime
      [] name = "Average Connect Time" -> m.ConnectTime
      [] name = "Average SSL Time" -> m.SSLTime
      [] name = "Cache Hit Ratio" -> m.CacheHitRatio

IntField(name, m) ==
    CASE name = "Total Requests" -> m.TotalRequests
      [] name = "Error Requests" -> m.ErrorRequests
      [] name = "Third-party Requests" -> m.ThirdPartyRequests
      [] name = "Total Transfer Size" -> m.TotalSize

\* The sign of (file i's value - file 0's value) for the difference called name.
DeltaSign(name, i) ==
    IF name \in IntMetricNames
    THEN Sign(IntField(name, cMetrics[i]) - IntField(name, cMetrics[1]))
    ELSE LET v == FloatField(name, cMetrics[i])
             b == FloatField(name, cMetrics[1])
         IN  Sign(v.n * b.d - b.n * v.d)

\* Whether file 0's value for the difference called name is 0.
ZeroBase(name) ==
    IF name \in IntMetricNames THEN IntField(name, cMetrics[1]) = 0
    ELSE FloatField(name, cMetrics[1]).n = 0

Compared == cpc = "compared" /\ Len(cMetrics) >= 2

Diffs == cResult.Differences
Columns == 2 .. Len(cMetrics)

\* C6: for the integer and size metrics a column is "No change" exactly when its
\* value equals file 0's; error count 0 -> 2 is a change, shown with 0.0%, and
\* counted as worse.
C6_IntNoChangeIffZeroDelta ==
    Compared =>
        /\ { Diffs[d].Name : d \in 1 .. Len(Diffs) } \cap IntMetricNames = IntMetricNames
        /\ \A d \in 1 .. Len(Diffs) : \A i \in Columns :
              Diffs[d].Name \in IntMetricNames =>
                  /\ (Diffs[d].Changes[i] = NoChange) <=> (DeltaSign(Diffs[d].Name, i) = 0)
                  /\ ( /\ Diffs[d].Name = "Error Requests"
                       /\ cMetrics[1].ErrorRequests = 0
                       /\ cMetrics[i].ErrorRequests = 2 )
                     => /\ Diffs[d].Changes[i] # NoChange
                        /\ Diffs[d].Changes[i].pct = [neg |-> FALSE, tenths |-> 0]
                        /\ TallyOf(Diffs[d], i) = "worse"
                        /\ cResult.Summary.WorseCount >= 1

\* Error count 0 in file 0 and 2 in another file, compared.
C6_Witness ==
    /\ Compared
    /\ cMetrics[1].ErrorRequests = 0
    /\ cMetrics[2].ErrorRequests = 2

\* C7 as stated: whatever the metric, a zero baseline with a non-zero value in
\* file i is never "No change".
C7_ZeroBaseNeverNoChange ==
    Compared =>
        \A d \in 1 .. Len(Diffs) : \A i \in Columns :
            (ZeroBase(Diffs[d].Name) /\ DeltaSign(Diffs[d].Name, i) # 0)
                => Diffs[d].Changes[i] # NoChange

\* C7 as amended: with a zero baseline and a non-zero value in file i, an
\* integer or size column is a change shown with 0.0% and counted better or
\* worse by its improvement flag (never "No change"), and a floating-point
\* column is "No change" with the improvement flag false.
C7_ZeroBaseIntChangesFloatNoChange ==
    Compared =>
        \A d \in 1 .. Len(Diffs) : \A i \in Columns :
            (ZeroBase(Diffs[d].Name) /\ DeltaSign(Diffs[d].Name, i) # 0) =>
                IF Diffs[d].Name \in IntMetricNames
                THEN /\ Diffs[d].Changes[i] # NoChange
                     /\ Diffs[d].Changes[i].pct = [neg |-> FALSE, tenths |-> 0]
                     /\ Diffs[d].Changes[i].plus = (DeltaSign(Diffs[d].Name, i) > 0)
                     /\ TallyOf(Diffs[d], i) \in {"better", "worse"}
                ELSE /\ Diffs[d].Changes[i] = NoChange
                     /\ Diffs[d].Improvements[i] = FALSE
                     /\ TallyOf(Diffs[d], i) = "unchanged"

\* A comparison in which file 0 has load time 0 and error count 0 and file 1
\* has neither.
C7_Witness ==
    /\ Compared
    /\ cMetrics[1].PageLoadTime = RatInt(0)
    /\ cMetrics[2].PageLoadTime # RatInt(0)
    /\ cMetrics[1].ErrorRequests = 0
    /\ cMetrics[2].ErrorRequests # 0

LowerIsBetter ==
    TimingMetrics \cup { "Error Requests", "Third-party Requests", "Total Transfer Size" }

\* C9: column 0 and every "No change" column have the improvement flag false;
\* any other column of a lower-is-better metric has it true exactly when the
\* value went down, and of the cache hit ratio exactly when it went up.
C9_ImprovementByMetricAndSign ==
    Compared =>
        /\ { Diffs[d].Name : d \in 1 .. Len(Diffs) }
              = LowerIsBetter \cup { "Cache Hit Ratio", "Total Requests" }
        /\ \A d \in 1 .. Len(Diffs) :
              /\ Diffs[d].Improvements[1] = FALSE
              /\ \A i \in Columns :
                    IF Diffs[d].Changes[i] = NoChange
                    THEN Diffs[d].Improvements[i] = FALSE
                    ELSE /\ Diffs[d].Name \in LowerIsBetter =>
                              (Diffs[d].Improvements[i] <=> DeltaSign(Diffs[d].Name, i) < 0)
                         /\ Diffs[d].Name = "Cache Hit Ratio" =>
                              (Diffs[d].Improvements[i] <=> DeltaSign(Diffs[d].Name, i) > 0)

\* A comparison in which the cache hit ratio rose, the load time fell, the
\* error count rose and the transfer size fell.
C9_Witness ==
    /\ Compared
    /\ RatLt(cMetrics[1].CacheHitRatio, cMetrics[2].CacheHitRatio)
    /\ cMetrics[1].CacheHitRatio.n # 0
    /\ RatLt(cMetrics[2].PageLoadTime, cMetrics[1].PageLoadTime)
    /\ cMetrics[2].PageLoadTime.n # 0
    /\ cMetrics[1].ErrorRequests < cMetrics[2].ErrorRequests
    /\ cMetrics[2].TotalSize < cMetrics[1].TotalSize

\* The cells of the summary that count as t, other than those of Total Requests.
JudgedCells(t) ==
    { c \in SummaryCells(Diffs) :
        Diffs[c[1]].Name # "Total Requests" /\ TallyOf(Diffs[c[1]], c[2]) = t }

\* C10: a Total Requests column is counted neither in BetterCount nor in
\* WorseCount: both count only cells of the other nine metrics.
C10_TotalRequestsNotTallied ==
    Compared =>
        /\ cResult.Summary.BetterCount = Cardinality(JudgedCells("better"))
        /\ cResult.Summary.WorseCount = Cardinality(JudgedCells("worse"))

\* The cells of the comparison outside column 0.
NonBaselineCells ==
    { c \in (1 .. Len(Diffs)) \X Columns : c[2] <= Len(Diffs[c[1]].Changes) }

\* C11: for n >= 2 Metrics there are exactly 10 differences of n columns each,
\* and every one of the 10 * (n - 1) cells outside column 0 is counted once:
\* in UnchangedCount if it is "No change", in BetterCount if its improvement
\* flag is set, in WorseCount otherwise; TotalMetrics is the sum of the three.
C11_SummaryTalliesEveryCell ==
    Compared =>
        LET n == Len(cMetrics)
            unchanged == { c \in NonBaselineCells : Diffs[c[1]].Changes[c[2]] = NoChange }
            better == { c \in NonBaselineCells : Diffs[c[1]].Improvements[c[2]] }
        IN  /\ Len(Diffs) = 10
            /\ \A d \in 1 .. 10 : /\ Len(Diffs[d].Values) = n
                                  /\ Len(Diffs[d].Changes) = n
                                  /\ Len(Diffs[d].Improvements) = n
            /\ unchanged \cap better = {}
            /\ cResult.Summary.UnchangedCount = Cardinality(unchanged)
            /\ cResult.Summary.BetterCount = Cardinality(better)
            /\ cResult.Summary.WorseCount =
                   10 * (n - 1) - Cardinality(unchanged) - Cardinality(better)
            /\ cResult.Summary.TotalMetrics =
                   cResult.Summary.BetterCount + cResult.Summary.WorseCount
                   + cResult.Summary.UnchangedCount
            /\ cResult.Summary.TotalMetrics = 10 * (n - 1)

\* Three files compared, with cells of all three kinds.
C11_Witness ==
    /\ Compared
    /\ Len(cMetrics) = 3
    /\ cResult.Summary.BetterCount > 0
    /\ cResult.Summary.WorseCount > 0
    /\ cResult.Summary.UnchangedCount > 0
    /\ cResult.Summary.TotalMetrics = 20

\* C12: two Metrics with the same value in every field compared (zero values
\* and the TTFB of -1 among them) give UnchangedCount 10 and BetterCount =
\* WorseCount = 0.
C12_IdenticalMetricsUnchanged ==
    (Compared /\ Len(cMetrics) = 2 /\ cMetrics[1] = cMetrics[2]) =>
        /\ cResult.Summary.UnchangedCount = 10
        /\ cResult.Summary.BetterCount = 0
        /\ cResult.Summary.WorseCount = 0

\* The Metrics of an empty file compared with themselves, and Metrics with a
\* TTFB of -1 compared with themselves.
C12_Witness ==
    /\ Compared /\ Len(cMetrics) = 2 /\ cMetrics[1] = cMetrics[2]
    /\ \/ cMetrics[1] = ZeroMetrics
       \/ cMetrics[1].TTFB = RatInt(-1)
    /\ cResult.Summary.UnchangedCount = 10

\* C13: Compare of no Metrics or of one returns a Comparison with no
\* differences and a Summary whose counts are all 0, TotalMetrics too, with
\* Files and Metrics as they were given.
C13_FewerThanTwoMetrics ==
    (cpc = "compared" /\ Len(cMetrics) < 2) =>
        /\ cResult.Differences = <<>>
        /\ cResult.Summary = ZeroSummary
        /\ cResult.Summary.TotalMetrics = 0
        /\ cResult.Files = cFiles
        /\ cResult.Metrics = cMetrics

\* Compare has returned for one Metrics.
C13_Witness ==
    /\ cpc = "compared"
    /\ Len(cMetrics) = 1
    /\ cResult.Metrics = cMetrics

\* The differences of comparing file 0 with the file of column i alone.
PairDiffs(i) ==
    Compare(<<cFiles[1], cFiles[i]>>, <<cMetrics[1], cMetrics[i]>>).Differences

\* C14: column 0 of every difference is "Baseline" with the improvement flag
\* false, and the change string and flag of column i are those of comparing
\* file 0 with file i alone: no other file's metrics have a part in them.
C14_BaselineIsFileZero ==
    Compared =>
        /\ \A d \in 1 .. Len(Diffs) :
              /\ Diffs[d].Changes[1] = Baseline
              /\ Diffs[d].Improvements[1] = FALSE
        /\ \A i \in Columns :
              LET pair == PairDiffs(i)
              IN  /\ [d \in 1 .. Len(Diffs) |-> Diffs[d].Changes[i]]
                       = [d \in 1 .. Len(pair) |-> pair[d].Changes[2]]
                  /\ [d \in 1 .. Len(Diffs) |-> Diffs[d].Improvements[i]]
                       = [d \in 1 .. Len(pair) |-> pair[d].Improvements[2]]

\* Three files compared whose load times all differ, the third from the
\* second by another amount than from the first.
C14_Witness ==
    /\ Compared
    /\ Len(cMetrics) = 3
    /\ cMetrics[1].PageLoadTime = RatInt(2500)
    /\ cMetrics[2].PageLoadTime = RatInt(0)
    /\ cMetrics[3].PageLoadTime = RatInt(1800)
    /\ Diffs[1].Changes[3] # NoChange
    /\ Diffs[1].Improvements[3]

\* C30: in every column of a floating-point metric that is not "No change",
\* the change string begins with '+' when the value is above file 0's and
\* with '-' when it is below: the sign shown is the sign of value - baseline,
\* the delta that isImprovementFloat judges.
C30_DisplayedSignIsDeltaSign ==
    Compared =>
        \A d \in 1 .. Len(Diffs) : \A i \in Columns :
            (Diffs[d].Name \in FloatMetricNames /\ Diffs[d].Changes[i] # NoChange) =>
                /\ Diffs[d].Changes[i].plus <=> (DeltaSign(Diffs[d].Name, i) = 1)
                /\ (~Diffs[d].Changes[i].plus /\ Diffs[d].Changes[i].pct.neg)
                      <=> (DeltaSign(Diffs[d].Name, i) = -1)


=============================================================================
